---- MODULE Spec2Model ----
(***************************************************************************)
(* The checkpointed knowledge-graph pipeline of threat_sources_manager.py: *)
(* run_pipeline, process_document, ingest_to_neo4j, load_checkpoint and    *)
(* save_checkpoint, with the stages (NER, MITRE enrichment, relationship   *)
(* extraction) and the Neo4j sink as an environment that may fail.         *)
(***************************************************************************)
EXTENDS Integers, Sequences, FiniteSets, TLC

VARIABLES
    ckptFile,           \* CHECKPOINT_FILE on disk: [st, ids]
    attempted,          \* record ids whose ingest_to_neo4j loops have completed (history, all runs)
    env,                \* the kinds of failure the environment shows in this behaviour
    restarted,          \* whether the program has been started a second time
    dry_run,            \* run_pipeline's dry_run argument
    pc,                 \* position of the process
    phase,              \* "sample": timing loop (l.145), "main": checkpointed loop (l.153)
    documents,          \* run_pipeline's documents, after random.sample
    loaded,             \* the set load_checkpoint returned in this run
    processed_ids,      \* run_pipeline's processed_ids
    i,                  \* loop index into documents (1-based)
    pd,                 \* process_document's locals: [entities, enriched_entities, relationships]
    outcome,            \* how the current process_document call is ending
    relMode,            \* what the relationship extractor met in the current call
    entities,           \* run_pipeline's entities (l.162)
    relationships,      \* run_pipeline's relationships (l.162)
    k,                  \* position in ingest_to_neo4j's loops
    upserts,            \* save_entity / save_relationship calls made for the current document
    metrics,            \* the module's metrics dictionary
    calls,              \* stage invocations per record id in this run
    graph,              \* the Neo4j store: [nodes, edges]
    sinkCall,           \* the Neo4jPersistor call in progress, and how it went
    ld,                 \* ChunkedThreatLoader.load_and_reconstruct: its locals and position
    workers             \* two processes of the program on one checkpoint file: [file, w]

pipelineVars ==
    <<ckptFile, attempted, env, restarted, dry_run, pc, phase, documents, loaded,
      processed_ids, i, pd, outcome, relMode, entities, relationships, k,
      upserts, metrics, calls>>

sinkVars == <<graph, sinkCall>>

loaderVars == <<ld>>

workerVars == <<workers>>

vars == <<pipelineVars, sinkVars, loaderVars, workerVars>>

----------------------------------------------------------------------------
(* Bounds *)

NumDocs == 4        \* documents the reconstruction returns

(* Program constant: random.sample(documents, min(3, len(documents))) and
   sample_size = min(3, total_docs). *)
SampleCap == 3

Docs == 1..NumDocs

Min(a, b) == IF a <= b THEN a ELSE b

----------------------------------------------------------------------------
(* The archive: what ingest_data returns.  Every third document has a
   whitespace-only text (a chunk of ten blanks passes the length checks and
   strips to "").                                                           *)

DocText(d) == IF d % 3 = 0 THEN <<>> ELSE <<"a", " ", "b">>

(* str.strip(): the text without its leading and trailing blanks *)
RECURSIVE LStrip(_)
LStrip(t) == IF t # <<>> /\ Head(t) = " " THEN LStrip(Tail(t)) ELSE t

RECURSIVE RStrip(_)
RStrip(t) ==
    IF t # <<>> /\ t[Len(t)] = " " THEN RStrip(SubSeq(t, 1, Len(t) - 1)) ELSE t

Strip(t) == RStrip(LStrip(t))

Entity(d, n, t) == [name |-> <<d, n>>, type |-> t, mitre_id |-> "none"]

(* perform_hybrid_ner is a function of the text: on the text of every
   fourth document the extractor raises *)
NerFails(d) == d % 4 = 0

(* perform_hybrid_ner(text) when it returns: the entities of the document *)
NerOutput(d) ==
    IF d % 2 = 0
    THEN <<Entity(d, 1, "malware"), Entity(d, 2, "ttp")>>
    ELSE <<Entity(d, 1, "ttp")>>

(* enrich_entities_with_mitre_stix when fetch_mitre_data returns: entities of
   a MITRE type found in the data get their mitre_id, the others pass.      *)
EnrichOne(e) ==
    IF e.type \in {"ttp", "technique", "tactic"}
    THEN [e EXCEPT !.mitre_id = "T1000"]
    ELSE e

EnrichAll(es) == [n \in 1..Len(es) |-> EnrichOne(es[n])]

(* parse_relations on a complete answer of the LLM for these entities *)
RelationsOf(es) ==
    IF Len(es) = 0 THEN <<>>
    ELSE <<[source_name |-> es[1].name, source_type |-> es[1].type,
            target_name |-> es[Len(es)].name, target_type |-> es[Len(es)].type,
            relationship_type |-> "uses"]>>

----------------------------------------------------------------------------
NoFile == [st |-> "absent", ids |-> {}]

(* A checkpoint file holding {}: set(json.load(f)) is the set of its keys *)
ObjectFile == [st |-> "object", ids |-> {}]
NoLocals == [entities |-> <<>>, enriched_entities |-> <<>>, relationships |-> <<>>]
ZeroMetrics == [empty_texts |-> 0, total_entities |-> 0,
                total_relationships |-> 0, malformed_docs |-> 0]
ZeroCalls == [d \in Docs |-> [ner |-> 0, enrich |-> 0, rel |-> 0]]

(* The state of a freshly started process (module import: metrics, l.31) *)
FreshProcess ==
    /\ pc = "start"
    /\ phase = "sample"
    /\ documents = <<>>
    /\ loaded = {}
    /\ processed_ids = {}
    /\ i = 1
    /\ pd = NoLocals
    /\ outcome = "none"
    /\ relMode = "none"
    /\ entities = <<>>
    /\ relationships = <<>>
    /\ k = 1
    /\ upserts = <<>>
    /\ metrics = ZeroMetrics
    /\ calls = ZeroCalls

(* What may go wrong around the process.  A behaviour shows the failures
   of one of these environments:
     mitre  LOCAL_CACHE_PATH holds no MITRE data
     llm    the LLM may give no usable answer, or one that makes the
            extractor raise
     sink   save_entity and save_relationship may raise
     disk   opening or writing the checkpoint file may raise
     crash  the process may be killed, and the program started again
     empty    the archive reconstructs to no document
     foreign  processed_records.json exists and holds the JSON object {}
     nosink   the store cannot be reached when the persistor is constructed
   The first four occur in every combination; a crash occurs alone or with
   one of mitre, sink and disk; each of the last three occurs alone.     *)
Environments ==
    (SUBSET {"mitre", "llm", "sink", "disk"})
        \cup {{"crash"}, {"crash", "mitre"}, {"crash", "sink"}, {"crash", "disk"}}
        \cup {{"empty"}, {"foreign"}, {"nosink"}}

mitre_cache_ok == "mitre" \notin env

(* The sink and the loader at rest *)
EmptyGraph == [nodes |-> <<>>, edges |-> {}]
NoCall == [op |-> "none", arg |-> <<>>, retries |-> 0, tries |-> <<>>,
           result |-> "none", n |-> 0,
           upserted |-> {}, referenced |-> {}, again |-> FALSE]
NoLoad == [pc |-> "none"]

SinkIdle ==
    /\ graph = EmptyGraph
    /\ sinkCall = NoCall

LoaderIdle ==
    ld = NoLoad

(* No second process of the program has been started *)
NoWorkers == [file |-> {}, w |-> <<>>]

WorkersIdle ==
    workers = NoWorkers

Init ==
    /\ env \in Environments
    /\ ckptFile = IF "foreign" \in env THEN ObjectFile ELSE NoFile
    /\ attempted = {}
    /\ restarted = FALSE
    /\ dry_run = FALSE
    /\ FreshProcess
    /\ SinkIdle
    /\ LoaderIdle
    /\ WorkersIdle

----------------------------------------------------------------------------
(* run_pipeline, l.119-137 *)

(* random.sample(documents, n): n distinct documents in any order *)
Samples(n) ==
    {s \in [1..n -> Docs] : \A a, b \in 1..n : a # b => s[a] # s[b]}

(* l.120-130: ingest_data, random.sample, the empty-archive return *)
LoadDocuments ==
    /\ pc = "start"
    /\ \E s \in IF "empty" \in env THEN {<<>>}
               ELSE Samples(Min(SampleCap, NumDocs)) :
         /\ documents' = s
         /\ pc' = IF Len(s) = 0 THEN "returned" ELSE "load_checkpoint"
    /\ UNCHANGED <<ckptFile, attempted, env, restarted, dry_run, phase, loaded,
                   processed_ids, i, pd, outcome, relMode, entities,
                   relationships, k, upserts, metrics, calls>>
    /\ UNCHANGED <<sinkVars, loaderVars, workerVars>>

(* load_checkpoint, l.48-54 and l.132: the file absent gives set(), a
   complete file its ids, a JSON object the set of its keys; a torn file
   makes json.load raise out of run_pipeline. *)
LoadCheckpoint ==
    /\ pc = "load_checkpoint"
    /\ IF ckptFile.st = "torn"
       THEN /\ pc' = "aborted"
            /\ UNCHANGED <<loaded, processed_ids, phase, i>>
       ELSE /\ loaded' = ckptFile.ids
            /\ processed_ids' = ckptFile.ids
            /\ phase' = "sample"
            /\ i' = 1
            /\ pc' = "connect"
    /\ UNCHANGED <<ckptFile, attempted, env, restarted, dry_run, documents, pd,
                   outcome, relMode, entities, relationships, k, upserts,
                   metrics, calls>>
    /\ UNCHANGED <<sinkVars, loaderVars, workerVars>>

(* Neo4jPersistor(...), l.137, and neo4j_persistor.py l.7-10 and l.26-30:
   the index statements run; the timing loop starts at documents[0] *)
Connect ==
    /\ pc = "connect"
    /\ "nosink" \notin env
    /\ pc' = "process_document"
    /\ UNCHANGED <<ckptFile, attempted, env, restarted, dry_run, phase,
                   documents, loaded, processed_ids, i, pd, outcome, relMode,
                   entities, relationships, k, upserts, metrics, calls>>
    /\ UNCHANGED <<sinkVars, loaderVars, workerVars>>

(* _ensure_indexes raises: l.137 stands before the try of l.139, so the
   exception leaves run_pipeline *)
ConnectFails ==
    /\ pc = "connect"
    /\ "nosink" \in env
    /\ pc' = "connect_failed"
    /\ UNCHANGED <<ckptFile, attempted, env, restarted, dry_run, phase,
                   documents, loaded, processed_ids, i, pd, outcome, relMode,
                   entities, relationships, k, upserts, metrics, calls>>
    /\ UNCHANGED <<sinkVars, loaderVars, workerVars>>

----------------------------------------------------------------------------
(* process_document, l.62-90 *)

Doc == documents[i]

Bump(field) == [metrics EXCEPT ![field] = @ + 1]
Called(stage) == [calls EXCEPT ![Doc][stage] = @ + 1]

(* process_document without its except clause: the exception leaves
   run_pipeline through the finally of l.169 *)
HandleStageErrorPropagates(stage) ==
    /\ metrics' = metrics
    /\ outcome' = stage
    /\ pc' = "aborted"

(* l.87-90: the except clause of process_document *)
HandleStageError(stage) ==
    /\ metrics' = Bump("malformed_docs")
    /\ outcome' = stage
    /\ pc' = "pd_return"

(* An empty text handled by the except clause of l.87-90 *)
EmptyTextCountedMalformed ==
    /\ metrics' = Bump("malformed_docs")
    /\ outcome' = "empty"
    /\ pc' = "pd_return"

(* l.69-71: the empty text is logged and counted, and [], [] returned *)
EmptyTextReturn ==
    /\ metrics' = Bump("empty_texts")
    /\ outcome' = "empty"
    /\ pc' = "pd_return"

(* l.66-73: the text is looked at before any stage *)
PdEnter ==
    /\ pc = "process_document"
    /\ pd' = NoLocals
    /\ relMode' = "none"
    /\ IF Strip(DocText(Doc)) = <<>>
       THEN EmptyTextReturn
       ELSE /\ outcome' = "none"
            /\ pc' = "ner"
            /\ UNCHANGED metrics
    /\ UNCHANGED <<ckptFile, attempted, env, restarted, dry_run, phase,
                   documents, loaded, processed_ids, i, entities,
                   relationships, k, upserts, calls>>
    /\ UNCHANGED <<sinkVars, loaderVars, workerVars>>

(* Relationship extraction called straight after extraction *)
StageAfterSkipsEnrichment(stage) == "relex"

(* l.75-82: the statement that follows a stage that returned *)
StageAfter(stage) == IF stage = "ner" THEN "enrich" ELSE "relex"

(* l.75-76: perform_hybrid_ner returns *)
NerReturns ==
    /\ pc = "ner"
    /\ ~NerFails(Doc)
    /\ calls' = Called("ner")
    /\ pd' = [pd EXCEPT !.entities = NerOutput(Doc)]
    /\ metrics' = [metrics EXCEPT !.total_entities = @ + Len(NerOutput(Doc))]
    /\ pc' = StageAfter("ner")
    /\ UNCHANGED <<ckptFile, attempted, env, restarted, dry_run, phase,
                   documents, loaded, processed_ids, i, outcome, relMode,
                   entities, relationships, k, upserts>>
    /\ UNCHANGED <<sinkVars, loaderVars, workerVars>>

(* l.75: perform_hybrid_ner raises (the model does not load, the pipeline
   fails on the text) *)
NerRaises ==
    /\ pc = "ner"
    /\ NerFails(Doc)
    /\ calls' = Called("ner")
    /\ HandleStageError("ner_error")
    /\ UNCHANGED <<ckptFile, attempted, env, restarted, dry_run, phase,
                   documents, loaded, processed_ids, i, pd, relMode,
                   entities, relationships, k, upserts>>
    /\ UNCHANGED <<sinkVars, loaderVars, workerVars>>

(* l.79 and enrich_entities_with_mitre_stix: fetch_mitre_data raises
   FileNotFoundError when there is no local MITRE cache, and returns the
   data otherwise *)
Enrich ==
    /\ pc = "enrich"
    /\ calls' = Called("enrich")
    /\ IF mitre_cache_ok
       THEN /\ pd' = [pd EXCEPT !.enriched_entities = EnrichAll(pd.entities)]
            /\ pc' = StageAfter("enrich")
            /\ UNCHANGED <<metrics, outcome>>
       ELSE /\ HandleStageError("enrich_error")
            /\ UNCHANGED pd
    /\ UNCHANGED <<ckptFile, attempted, env, restarted, dry_run, phase,
                   documents, loaded, processed_ids, i, relMode,
                   entities, relationships, k, upserts>>
    /\ UNCHANGED <<sinkVars, loaderVars, workerVars>>

(* extract_relationships_llm, l.123-173, by what it meets:
     no_key      groq_key is None: the Groq branch is skipped
     no_answer   GroqClient.extract_relations returns None (the request
                 failed twice, the answer is empty or holds no JSON array)
     incomplete  every object of the answer lacks a required key
     complete    the answer is the relations of the text                  *)
RelModes ==
    IF "llm" \in env
    THEN {"no_key", "no_answer", "incomplete", "complete"}
    ELSE {"complete"}

ExtractRelationships(mode, es) ==
    IF Len(es) = 0 THEN <<>>
    ELSE IF mode = "complete" THEN RelationsOf(es)
    ELSE <<>>

(* l.82-86: extract_relationships_llm returns *)
RelexReturns ==
    /\ pc = "relex"
    /\ calls' = Called("rel")
    /\ \E mode \in RelModes :
         /\ relMode' = mode
         /\ LET rs == ExtractRelationships(mode, pd.enriched_entities) IN
              /\ pd' = [pd EXCEPT !.relationships = rs]
              /\ metrics' = [metrics EXCEPT !.total_relationships = @ + Len(rs)]
    /\ outcome' = "ok"
    /\ pc' = "pd_return"
    /\ UNCHANGED <<ckptFile, attempted, env, restarted, dry_run, phase,
                   documents, loaded, processed_ids, i, entities,
                   relationships, k, upserts>>
    /\ UNCHANGED <<sinkVars, loaderVars, workerVars>>

(* l.82: extract_relationships_llm raises: GroqClient(...) is constructed
   and parse_relations runs outside any try (an answer such as [1] makes
   "k in r" raise TypeError) *)
RelexRaises ==
    /\ pc = "relex"
    /\ "llm" \in env
    /\ calls' = Called("rel")
    /\ relMode' = "raises"
    /\ HandleStageError("rel_error")
    /\ UNCHANGED <<ckptFile, attempted, env, restarted, dry_run, phase,
                   documents, loaded, processed_ids, i, pd,
                   entities, relationships, k, upserts>>
    /\ UNCHANGED <<sinkVars, loaderVars, workerVars>>

(* What process_document returns: l.71, l.86, l.90 *)
Returned ==
    IF outcome = "ok"
    THEN <<pd.enriched_entities, pd.relationships>>
    ELSE <<<<>>, <<>>>>

(* l.163-164 in the other order: the id is committed with nothing persisted *)
HandOverCommitsFirst ==
    pc' = "commit"

(* l.162-163: the main loop has the result and calls ingest_to_neo4j *)
HandOver ==
    pc' = "ingest_entities"

(* The caller takes the result: the timing loop (l.145-146) drops it and
   goes to the next of the first sample_size documents, then to the main
   loop; the main loop (l.162) keeps it for ingest_to_neo4j.             *)
PdReturn ==
    /\ pc = "pd_return"
    /\ pd' = NoLocals
    /\ IF phase = "sample"
       THEN /\ IF i < Min(SampleCap, Len(documents))
               THEN /\ i' = i + 1
                    /\ pc' = "process_document"
                    /\ UNCHANGED phase
               ELSE /\ i' = 1
                    /\ pc' = "loop"
                    /\ phase' = "main"
            /\ outcome' = "none"
            /\ relMode' = "none"
            /\ UNCHANGED <<entities, relationships, k, upserts>>
       ELSE /\ entities' = Returned[1]
            /\ relationships' = Returned[2]
            /\ k' = 1
            /\ upserts' = <<>>
            /\ HandOver
            /\ UNCHANGED <<phase, i, outcome, relMode>>
    /\ UNCHANGED <<ckptFile, attempted, env, restarted, dry_run,
                   documents, loaded, processed_ids, metrics, calls>>
    /\ UNCHANGED <<sinkVars, loaderVars, workerVars>>

----------------------------------------------------------------------------
(* run_pipeline's main loop, l.153-173 *)

(* The loop is done with documents[i]: its locals die, the next iteration
   starts *)
NextDocument ==
    /\ i' = i + 1
    /\ pc' = "loop"
    /\ entities' = <<>>
    /\ relationships' = <<>>
    /\ k' = 1
    /\ upserts' = <<>>
    /\ outcome' = "none"
    /\ relMode' = "none"

(* A variant of the test of l.158 that finds no id *)
AlreadyProcessedNever(d) == FALSE

(* l.158: record_id in processed_ids *)
AlreadyProcessed(d) == d \in processed_ids

(* l.158-160: a record id of processed_ids is skipped *)
LoopSkip ==
    /\ pc = "loop"
    /\ i <= Len(documents)
    /\ AlreadyProcessed(Doc)
    /\ NextDocument
    /\ UNCHANGED <<ckptFile, attempted, env, restarted, dry_run, phase,
                   documents, loaded, processed_ids, pd, metrics, calls>>
    /\ UNCHANGED <<sinkVars, loaderVars, workerVars>>

(* l.161-162: process_document is called for the others *)
LoopProcess ==
    /\ pc = "loop"
    /\ i <= Len(documents)
    /\ ~AlreadyProcessed(Doc)
    /\ pc' = "process_document"
    /\ UNCHANGED <<ckptFile, attempted, env, restarted, dry_run, phase,
                   documents, loaded, processed_ids, i, pd, outcome, relMode,
                   entities, relationships, k, upserts, metrics, calls>>
    /\ UNCHANGED <<sinkVars, loaderVars, workerVars>>

(* l.169-173: the loop is over, the connection is closed and the metrics
   summary is logged *)
LoopEnd ==
    /\ pc = "loop"
    /\ i > Len(documents)
    /\ pc' = "done"
    /\ UNCHANGED <<ckptFile, attempted, env, restarted, dry_run, phase,
                   documents, loaded, processed_ids, i, pd, outcome, relMode,
                   entities, relationships, k, upserts, metrics, calls>>
    /\ UNCHANGED <<sinkVars, loaderVars, workerVars>>

----------------------------------------------------------------------------
(* ingest_to_neo4j, l.92-110 *)

(* Whether a call of save_entity or save_relationship returns (TRUE) or
   raises (FALSE) *)
SaveResults == IF "sink" \in env THEN BOOLEAN ELSE {TRUE}

Upsert(kind, item, ok) == [kind |-> kind, item |-> item, ok |-> ok]

(* The entity loop leaving at the first save_entity that raises *)
SaveEntityStepBreaks(ok) ==
    /\ upserts' = Append(upserts, Upsert("entity", entities[k], ok))
    /\ IF ok
       THEN k' = k + 1 /\ pc' = pc
       ELSE k' = k /\ pc' = "commit"

(* l.101-104: save_entity returns or raises; the except clause logs and the
   loop goes on *)
SaveEntityStep(ok) ==
    /\ upserts' = Append(upserts, Upsert("entity", entities[k], ok))
    /\ k' = k + 1
    /\ pc' = pc

(* A variant of l.96 in which no run is a dry run *)
SkipsPersistenceNever == FALSE

(* l.96: if dry_run *)
SkipsPersistence == dry_run

(* l.100-104: one pass of the entity loop.  l.96-98: a dry run returns at
   once.  *)
IngestEntity ==
    /\ pc = "ingest_entities"
    /\ IF SkipsPersistence
       THEN /\ pc' = "commit"
            /\ UNCHANGED <<k, upserts>>
       ELSE IF k <= Len(entities)
       THEN \E ok \in SaveResults : SaveEntityStep(ok)
       ELSE /\ pc' = "ingest_relationships"
            /\ k' = 1
            /\ UNCHANGED upserts
    /\ UNCHANGED <<ckptFile, attempted, env, restarted, dry_run, phase,
                   documents, loaded, processed_ids, i, pd, outcome, relMode,
                   entities, relationships, metrics, calls>>
    /\ UNCHANGED <<sinkVars, loaderVars, workerVars>>

(* l.106-110: one pass of the relationship loop, then the return *)
IngestRelationship ==
    /\ pc = "ingest_relationships"
    /\ IF k <= Len(relationships)
       THEN /\ \E ok \in SaveResults :
                 upserts' = Append(upserts, Upsert("relationship", relationships[k], ok))
            /\ k' = k + 1
            /\ UNCHANGED <<pc, attempted>>
       ELSE /\ pc' = "commit"
            /\ attempted' = attempted \cup {Doc}
            /\ UNCHANGED <<k, upserts>>
    /\ UNCHANGED <<ckptFile, env, restarted, dry_run, phase,
                   documents, loaded, processed_ids, i, pd, outcome, relMode,
                   entities, relationships, metrics, calls>>
    /\ UNCHANGED <<sinkVars, loaderVars, workerVars>>

----------------------------------------------------------------------------
(* l.164-167 and save_checkpoint, l.56-59 *)

(* A variant of l.164 that keeps the new id alone *)
AddedAlone(ids, d) == {d}

(* l.164: set.add *)
Added(ids, d) == ids \cup {d}

(* l.164: processed_ids.add(record_id) *)
Commit ==
    /\ pc = "commit"
    /\ processed_ids' = Added(processed_ids, Doc)
    /\ pc' = "save_open"
    /\ UNCHANGED <<ckptFile, attempted, env, restarted, dry_run, phase,
                   documents, loaded, i, pd, outcome, relMode, entities,
                   relationships, k, upserts, metrics, calls>>
    /\ UNCHANGED <<sinkVars, loaderVars, workerVars>>

(* l.57: CHECKPOINT_FILE.open("w") truncates the file in place *)
SaveOpen ==
    /\ pc = "save_open"
    /\ ckptFile' = [st |-> "torn", ids |-> {}]
    /\ pc' = "save_write"
    /\ UNCHANGED <<attempted, env, restarted, dry_run, phase,
                   documents, loaded, processed_ids, i, pd, outcome, relMode,
                   entities, relationships, k, upserts, metrics, calls>>
    /\ UNCHANGED <<sinkVars, loaderVars, workerVars>>

(* l.57: open raises OSError: the file is as it was, l.166 logs *)
SaveOpenFails ==
    /\ pc = "save_open"
    /\ "disk" \in env
    /\ NextDocument
    /\ UNCHANGED <<ckptFile, attempted, env, restarted, dry_run, phase,
                   documents, loaded, processed_ids, pd, metrics, calls>>
    /\ UNCHANGED <<sinkVars, loaderVars, workerVars>>

(* l.58: json.dump and the close of the file complete *)
SaveWrite ==
    /\ pc = "save_write"
    /\ ckptFile' = [st |-> "ok", ids |-> processed_ids]
    /\ NextDocument
    /\ UNCHANGED <<attempted, env, restarted, dry_run, phase,
                   documents, loaded, processed_ids, pd, metrics, calls>>
    /\ UNCHANGED <<sinkVars, loaderVars, workerVars>>

(* l.58: the write raises OSError (the disk is full): the file stays
   truncated, l.166 logs *)
SaveWriteFails ==
    /\ pc = "save_write"
    /\ "disk" \in env
    /\ NextDocument
    /\ UNCHANGED <<ckptFile, attempted, env, restarted, dry_run, phase,
                   documents, loaded, processed_ids, pd, metrics, calls>>
    /\ UNCHANGED <<sinkVars, loaderVars, workerVars>>

----------------------------------------------------------------------------
(* The process and its restarts *)

Running ==
    pc \notin {"done", "returned", "aborted", "connect_failed", "crashed"}

(* The process is killed (power loss, SIGKILL) where it stands *)
Crash ==
    /\ "crash" \in env
    /\ Running
    /\ pc' = "crashed"
    /\ UNCHANGED <<ckptFile, attempted, env, restarted, dry_run, phase,
                   documents, loaded, processed_ids, i, pd, outcome, relMode,
                   entities, relationships, k, upserts, metrics, calls>>
    /\ UNCHANGED <<sinkVars, loaderVars, workerVars>>

(* The program is started again: l.175-188 *)
Restart ==
    /\ "crash" \in env
    /\ ~Running
    /\ ~restarted
    /\ restarted' = TRUE
    /\ pc' = "start"
    /\ phase' = "sample"
    /\ documents' = <<>>
    /\ loaded' = {}
    /\ processed_ids' = {}
    /\ i' = 1
    /\ pd' = NoLocals
    /\ outcome' = "none"
    /\ relMode' = "none"
    /\ entities' = <<>>
    /\ relationships' = <<>>
    /\ k' = 1
    /\ upserts' = <<>>
    /\ metrics' = ZeroMetrics
    /\ calls' = ZeroCalls
    /\ UNCHANGED <<ckptFile, attempted, env, dry_run>>
    /\ UNCHANGED <<sinkVars, loaderVars, workerVars>>

Next ==
    \/ LoadDocuments
    \/ LoadCheckpoint
    \/ Connect
    \/ ConnectFails
    \/ PdEnter
    \/ NerReturns
    \/ NerRaises
    \/ Enrich
    \/ RelexReturns
    \/ RelexRaises
    \/ PdReturn
    \/ LoopSkip
    \/ LoopProcess
    \/ LoopEnd
    \/ IngestEntity
    \/ IngestRelationship
    \/ Commit
    \/ SaveOpen
    \/ SaveOpenFails
    \/ SaveWrite
    \/ SaveWriteFails
    \/ Crash
    \/ Restart

Spec == Init /\ [][Next]_vars

----------------------------------------------------------------------------
(* The program run with --dry-run (l.177, l.188), and afterwards without *)

(* The two runs show at most one kind of failure, or failures of the sink
   and of the disk together *)
DryEnvironments ==
    {e \in Environments : \A a, b \in e : a = b} \cup {{"sink", "disk"}}

InitDry ==
    /\ env \in DryEnvironments
    /\ ckptFile = IF "foreign" \in env THEN ObjectFile ELSE NoFile
    /\ attempted = {}
    /\ restarted = FALSE
    /\ dry_run = TRUE
    /\ FreshProcess
    /\ SinkIdle
    /\ LoaderIdle
    /\ WorkersIdle

(* l.175-188: once the dry run is over, the program is started without
   --dry-run on the same archive and the same checkpoint file *)
Rerun ==
    /\ dry_run
    /\ ~Running
    /\ ~restarted
    /\ restarted' = TRUE
    /\ dry_run' = FALSE
    /\ pc' = "start"
    /\ phase' = "sample"
    /\ documents' = <<>>
    /\ loaded' = {}
    /\ processed_ids' = {}
    /\ i' = 1
    /\ pd' = NoLocals
    /\ outcome' = "none"
    /\ relMode' = "none"
    /\ entities' = <<>>
    /\ relationships' = <<>>
    /\ k' = 1
    /\ upserts' = <<>>
    /\ metrics' = ZeroMetrics
    /\ calls' = ZeroCalls
    /\ UNCHANGED <<ckptFile, attempted, env>>
    /\ UNCHANGED <<sinkVars, loaderVars, workerVars>>

NextDry ==
    \/ Next
    \/ Rerun

SpecDry == InitDry /\ [][NextDry]_vars

----------------------------------------------------------------------------
(* Neo4jPersistor, threat_graph_engine/neo4j_persistor.py: save_entity,
   save_relationship and _run_with_retry against a store that follows
   Cypher's MERGE and SET.  A node is [name, entity_type, data]; data stands
   for the properties save_entity sets besides entity_type, "null" when they
   were never set.  An edge is [src, tgt, type, data] between node numbers. *)

MaxCalls == 3       \* save_entity / save_relationship calls in one behaviour

(* _run_with_retry's max_retries=3 *)
MaxRetries == 3

Names == {"a", "b"}
Types == {"t1", "t2"}
Payloads == {"v1", "v2"}

(* ThreatEntity values handed to save_entity; "" is a missing name or type *)
EntityInputs ==
    [name : {"a"}, type : Types, data : Payloads]
        \cup {[name |-> "", type |-> "t1", data |-> "v1"],
              [name |-> "b", type |-> "", data |-> "v1"]}

(* ThreatRelationship values handed to save_relationship *)
RelationInputs ==
    [source_name : {"a"}, source_type : Types,
     target_name : Names, target_type : {"t1"},
     relationship_type : {"uses"}, data : {"v1"}]
        \cup {[source_name |-> "a", source_type |-> "t1",
               target_name |-> "", target_type |-> "t1",
               relationship_type |-> "uses", data |-> "v1"],
              [source_name |-> "a", source_type |-> "t1",
               target_name |-> "b", target_type |-> "t1",
               relationship_type |-> "", data |-> "v2"]}

(* MERGE (e:ThreatEntity {name: $name}): the nodes the pattern matches *)
MatchName(g, name) ==
    {n \in 1..Len(g.nodes) : g.nodes[n].name = name}

(* MERGE (x:ThreatEntity {name: $n, entity_type: $t}): the nodes matched *)
MatchNameType(g, name, type) ==
    {n \in 1..Len(g.nodes) :
        g.nodes[n].name = name /\ g.nodes[n].entity_type = type}

(* MERGE creates the pattern when nothing matches it *)
MergeName(g, name) ==
    IF MatchName(g, name) # {} THEN g
    ELSE [g EXCEPT !.nodes =
            Append(@, [name |-> name, entity_type |-> "null", data |-> "null"])]

MergeNameType(g, name, type) ==
    IF MatchNameType(g, name, type) # {} THEN g
    ELSE [g EXCEPT !.nodes =
            Append(@, [name |-> name, entity_type |-> type, data |-> "null"])]

(* save_entity's query, l.36-45: MERGE on the name, SET on every node bound *)
SaveEntityQuery(g, e) ==
    LET g1 == MergeName(g, e.name)
        hit == MatchName(g1, e.name)
    IN  [g1 EXCEPT !.nodes =
            [n \in 1..Len(g1.nodes) |->
                IF n \in hit
                THEN [name |-> e.name, entity_type |-> e.type, data |-> e.data]
                ELSE g1.nodes[n]]]

(* save_relationship's query, l.64-71: MERGE source and target on name and
   entity_type, MERGE the edge of that type between every bound pair, SET *)
SaveRelationshipQuery(g, r) ==
    LET g1 == MergeNameType(g, r.source_name, r.source_type)
        g2 == MergeNameType(g1, r.target_name, r.target_type)
        srcs == MatchNameType(g2, r.source_name, r.source_type)
        tgts == MatchNameType(g2, r.target_name, r.target_type)
        keep == {x \in g2.edges :
                   ~(x.src \in srcs /\ x.tgt \in tgts
                       /\ x.type = r.relationship_type)}
        set == {[src |-> a, tgt |-> b, type |-> r.relationship_type,
                 data |-> r.data] : a \in srcs, b \in tgts}
    IN  [g2 EXCEPT !.edges = keep \cup set]

Query(g, op, arg) ==
    IF op = "save_entity" THEN SaveEntityQuery(g, arg)
    ELSE SaveRelationshipQuery(g, arg)

(* l.33 and l.61: the checks before the query *)
EntityValid(e) == e.name # "" /\ e.type # ""

RelationValid(r) ==
    r.source_name # "" /\ r.target_name # "" /\ r.relationship_type # ""

CallOver == sinkCall.result # "running"

(* The natural keys a call names: the entity's, or source's and target's *)
KeysOf(op, arg) ==
    IF op = "save_entity" THEN {<<arg.name, arg.type>>}
    ELSE {<<arg.source_name, arg.source_type>>,
          <<arg.target_name, arg.target_type>>}

Begin(op, arg, valid) ==
    sinkCall' = [sinkCall EXCEPT
                   !.op = op, !.arg = arg, !.retries = 0, !.tries = <<>>,
                   !.result = IF valid THEN "running" ELSE "ValueError",
                   !.n = @ + 1,
                   !.again = KeysOf(op, arg) \subseteq sinkCall.upserted]

(* save_entity, l.32-34 and l.58: ValueError, or _run_with_retry is entered *)
CallSaveEntity ==
    /\ CallOver
    /\ sinkCall.n < MaxCalls
    /\ \E e \in EntityInputs : Begin("save_entity", e, EntityValid(e))
    /\ UNCHANGED <<graph, pipelineVars, loaderVars, workerVars>>

(* save_relationship, l.60-62 and l.84 *)
CallSaveRelationship ==
    /\ CallOver
    /\ sinkCall.n < MaxCalls
    /\ \E r \in RelationInputs :
         Begin("save_relationship", r, RelationValid(r))
    /\ UNCHANGED <<graph, pipelineVars, loaderVars, workerVars>>

(* l.17-19: func() returns, and _run_with_retry with it *)
InvokeReturns ==
    /\ sinkCall.result = "running"
    /\ sinkCall.retries < MaxRetries
    /\ graph' = Query(graph, sinkCall.op, sinkCall.arg)
    /\ sinkCall' = [sinkCall EXCEPT
                       !.tries = Append(@, "ok"),
                       !.result = "ok",
                       !.upserted = IF sinkCall.op = "save_entity"
                                    THEN @ \cup KeysOf(sinkCall.op, sinkCall.arg)
                                    ELSE @,
                       !.referenced = IF sinkCall.op = "save_relationship"
                                      THEN @ \cup KeysOf(sinkCall.op, sinkCall.arg)
                                      ELSE @]
    /\ UNCHANGED <<pipelineVars, loaderVars, workerVars>>

(* A retry loop that ends without raising when the retries are used up *)
OnTransientSwallows ==
    [sinkCall EXCEPT !.tries = Append(@, "transient"),
                     !.retries = @ + 1,
                     !.result = IF sinkCall.retries + 1 = MaxRetries
                                THEN "ok" ELSE "running"]

(* What _run_with_retry does with a TransientError, l.20-23: it counts it
   and raises it when the count reaches max_retries *)
OnTransient ==
    [sinkCall EXCEPT !.tries = Append(@, "transient"),
                     !.retries = @ + 1,
                     !.result = IF sinkCall.retries + 1 = MaxRetries
                                THEN "TransientError" ELSE "running"]

(* l.17-23: func() raises TransientError; the transaction leaves the store
   as it was *)
InvokeTransient ==
    /\ sinkCall.result = "running"
    /\ sinkCall.retries < MaxRetries
    /\ sinkCall' = OnTransient
    /\ UNCHANGED <<graph, pipelineVars, loaderVars, workerVars>>

(* A retry loop that catches every exception *)
OnOtherErrorRetries ==
    [sinkCall EXCEPT !.tries = Append(@, "error"),
                     !.retries = @ + 1,
                     !.result = IF sinkCall.retries + 1 = MaxRetries
                                THEN "Error" ELSE "running"]

(* What _run_with_retry does with another exception: nothing catches it *)
OnOtherError ==
    [sinkCall EXCEPT !.tries = Append(@, "error"), !.result = "Error"]

(* l.17-19: func() raises an exception that is no TransientError *)
InvokeOtherError ==
    /\ sinkCall.result = "running"
    /\ sinkCall.retries < MaxRetries
    /\ sinkCall' = OnOtherError
    /\ UNCHANGED <<graph, pipelineVars, loaderVars, workerVars>>

PipelineIdle ==
    /\ ckptFile = NoFile
    /\ attempted = {}
    /\ env = {}
    /\ restarted = FALSE
    /\ dry_run = FALSE
    /\ FreshProcess

InitSink ==
    /\ PipelineIdle
    /\ SinkIdle
    /\ LoaderIdle
    /\ WorkersIdle

NextSink ==
    \/ CallSaveEntity
    \/ CallSaveRelationship
    \/ InvokeReturns
    \/ InvokeTransient
    \/ InvokeOtherError

SpecSink == InitSink /\ [][NextSink]_vars

----------------------------------------------------------------------------
(* ChunkedThreatLoader, threat_graph_engine/ingestion.py.  A JSON value is a
   record [k, n, s]: k its kind, n its value when it is a number, s its
   characters or items when it is a string or a list. *)

MaxChunks == 3      \* chunks of an archive

MIN_TEXT_LENGTH == 10

MAX_CHUNK_TEXT_LENGTH == 2048

Absent == [k |-> "absent", n |-> 0, s |-> <<>>]

Num(n) == [k |-> "int", n |-> n, s |-> <<>>]

Str(s) == [k |-> "str", n |-> 0, s |-> s]

List(s) == [k |-> "list", n |-> 0, s |-> s]

Rep(c, n) == [j \in 1..n |-> c]

Digits == {"0", "1", "2", "3", "4", "5", "6", "7", "8", "9"}

DigitValue(c) ==
    CASE c = "0" -> 0 [] c = "1" -> 1 [] c = "2" -> 2 [] c = "3" -> 3
      [] c = "4" -> 4 [] c = "5" -> 5 [] c = "6" -> 6 [] c = "7" -> 7
      [] c = "8" -> 8 [] c = "9" -> 9

(* int(v) succeeds: v is a number or a string of digits; chunk[key] of an
   absent key raises KeyError *)
CanInt(v) ==
    \/ v.k = "int"
    \/ v.k = "str" /\ v.s # <<>> /\ \A j \in 1..Len(v.s) : v.s[j] \in Digits

RECURSIVE ParseDigits(_)
ParseDigits(s) ==
    IF s = <<>> THEN 0
    ELSE 10 * ParseDigits(SubSeq(s, 1, Len(s) - 1)) + DigitValue(s[Len(s)])

(* int(v) *)
IntOf(v) == IF v.k = "int" THEN v.n ELSE ParseDigits(v.s)

(* chunk.get("text", "") *)
GetText(chunk) == IF chunk.text.k = "absent" THEN Str(<<>>) ELSE chunk.text

(* bool(text) *)
Truthy(t) == IF t.k = "int" THEN t.n # 0 ELSE t.s # <<>>

(* len(text) raises TypeError *)
LenRaises(t) == t.k = "int"

(* A minimum that the text has to exceed *)
TooShortExclusive(t) == ~(Truthy(t) /\ Len(t.s) > MIN_TEXT_LENGTH)

(* l.79: not (text and len(text) >= MIN_TEXT_LENGTH), len() not raising *)
TooShort(t) == ~(Truthy(t) /\ Len(t.s) >= MIN_TEXT_LENGTH)

(* l.83 *)
TooLong(t) == Len(t.s) > MAX_CHUNK_TEXT_LENGTH

(* A chunk; meta stands for its source, type, indicator and date, which
   l.73-76 read and l.90-99 treat alike *)
Chunk(id, idx, text) ==
    [obj |-> TRUE, record_id |-> id, chunk_index |-> idx, text |-> text,
     meta |-> "m1"]

(* The chunk with other metadata *)
WithMeta(chunk, meta) == [chunk EXCEPT !.meta = meta]

(* An array element that is no JSON object *)
NotAnObject ==
    [obj |-> FALSE, record_id |-> Absent, chunk_index |-> Absent,
     text |-> Absent, meta |-> "none"]

TextA == Rep("a", MIN_TEXT_LENGTH)
TextB == Rep("b", MIN_TEXT_LENGTH)
TextC == Rep("c", MIN_TEXT_LENGTH + 1)
TextBlanks == <<" ">> \o Rep("d", MIN_TEXT_LENGTH) \o <<" ">>
TextMax == Rep("e", MAX_CHUNK_TEXT_LENGTH)

(* The chunks archives are made of *)
Chunks ==
    { Chunk(Num(1), Num(0), Str(TextA)),
      Chunk(Num(1), Num(1), Str(TextB)),
      Chunk(Num(1), Num(2), Str(TextC)),
      Chunk(Num(2), Num(0), Str(TextBlanks)),
      WithMeta(Chunk(Str(<<"2">>), Str(<<"0">>), Str(TextMax)), "m2"),
      Chunk(Num(1), Num(0), Absent),
      Chunk(Num(1), Num(1), Str(<<>>)),
      Chunk(Num(2), Num(0), Str(Rep("s", MIN_TEXT_LENGTH - 1))),
      Chunk(Num(2), Num(2), Str(Rep("e", MAX_CHUNK_TEXT_LENGTH + 1))),
      Chunk(Num(1), Num(1), Num(7)),
      Chunk(Num(1), Num(1), List(Rep("x", MIN_TEXT_LENGTH))),
      Chunk(Str(<<"x">>), Num(0), Str(TextA)),
      Chunk(Num(2), Absent, Str(TextB)),
      NotAnObject }

RECURSIVE SeqsUpTo(_, _)
SeqsUpTo(S, n) ==
    IF n = 0 THEN {<<>>}
    ELSE LET shorter == SeqsUpTo(S, n - 1)
         IN  shorter \cup {Append(q, x) : q \in shorter, x \in S}

Archives == SeqsUpTo(Chunks, MaxChunks)

(* l.49-62: the loader's locals before the first chunk *)
LoaderStart(file, archive) ==
    [pc |-> "init", file |-> file, archive |-> archive, next |-> 1,
     records_map |-> <<>>, total_chunks |-> 0, valid_chunks |-> 0,
     skipped_chunks |-> 0, r |-> 1, full_documents |-> <<>>]

(* ChunkedThreatLoader.__init__, l.24-28 *)
LoaderOpen ==
    /\ ld.pc = "init"
    /\ ld' = [ld EXCEPT !.pc = IF ld.file = "missing" THEN "raised"
                                ELSE "scan"]
    /\ UNCHANGED <<pipelineVars, sinkVars, workerVars>>

(* _stream_chunks, l.42-44: json.load raises inside the scan loop's iterator,
   outside the loop body's try *)
StreamRaises ==
    /\ ld.pc = "scan"
    /\ ld.file = "undecodable"
    /\ ld' = [ld EXCEPT !.pc = "raised"]
    /\ UNCHANGED <<pipelineVars, sinkVars, workerVars>>

(* records_map[rec_id], l.88: the entry's place, a new one when there is none *)
EntryOf(map, id) ==
    IF \E j \in 1..Len(map) : map[j].record_id = id
    THEN CHOOSE j \in 1..Len(map) : map[j].record_id = id
    ELSE Len(map) + 1

(* Metadata that every chunk of the record sets anew *)
EntryMetaLastSeen(map, j, meta) == meta

(* l.90-99: the metadata of the record are set by its first chunk; a later
   chunk with other metadata is logged *)
EntryMeta(map, j, meta) == IF j <= Len(map) THEN map[j].meta ELSE meta

(* l.88-103: the chunk is appended to its record's text_chunks *)
Retain(map, id, idx, text, meta) ==
    LET j == EntryOf(map, id)
        old == IF j <= Len(map) THEN map[j].text_chunks ELSE <<>>
        entry == [record_id |-> id,
                  meta |-> EntryMeta(map, j, meta),
                  text_chunks |-> Append(old, [idx |-> idx, text |-> text])]
    IN  IF j <= Len(map) THEN [map EXCEPT ![j] = entry]
        ELSE Append(map, entry)

(* l.70-86 and l.105: the chunk is skipped, by a check or by the except *)
Skipped(chunk) ==
    \/ ~chunk.obj
    \/ ~CanInt(chunk.record_id)
    \/ ~CanInt(chunk.chunk_index)
    \/ LET text == GetText(chunk)
       IN  IF Truthy(text) /\ LenRaises(text) THEN TRUE
           ELSE TooShort(text) \/ TooLong(text)

(* One pass of the loop body, l.67-107 *)
ScanChunk ==
    /\ ld.pc = "scan"
    /\ ld.file = "ok"
    /\ ld.next <= Len(ld.archive)
    /\ LET chunk == ld.archive[ld.next]
       IN  ld' = IF Skipped(chunk)
                 THEN [ld EXCEPT !.next = @ + 1,
                                 !.total_chunks = @ + 1,
                                 !.skipped_chunks = @ + 1]
                 ELSE [ld EXCEPT !.next = @ + 1,
                                 !.total_chunks = @ + 1,
                                 !.valid_chunks = @ + 1,
                                 !.records_map =
                                     Retain(@, IntOf(chunk.record_id),
                                            IntOf(chunk.chunk_index),
                                            GetText(chunk), chunk.meta)]
    /\ UNCHANGED <<pipelineVars, sinkVars, workerVars>>

(* l.109: the iterator is exhausted *)
ScanEnd ==
    /\ ld.pc = "scan"
    /\ ld.file = "ok"
    /\ ld.next > Len(ld.archive)
    /\ ld' = [ld EXCEPT !.pc = "reconstruct"]
    /\ UNCHANGED <<pipelineVars, sinkVars, workerVars>>

(* An insertion that puts x before its equals *)
RECURSIVE InsertBeforeEquals(_, _)
InsertBeforeEquals(sorted, x) ==
    IF sorted = <<>> THEN <<x>>
    ELSE IF sorted[Len(sorted)].idx < x.idx THEN Append(sorted, x)
    ELSE Append(InsertBeforeEquals(SubSeq(sorted, 1, Len(sorted) - 1), x),
                sorted[Len(sorted)])

(* list.sort(key=lambda x: x[0]) is stable: x goes behind its equals *)
RECURSIVE InsertByIndex(_, _)
InsertByIndex(sorted, x) ==
    IF sorted = <<>> THEN <<x>>
    ELSE IF sorted[Len(sorted)].idx <= x.idx THEN Append(sorted, x)
    ELSE Append(InsertByIndex(SubSeq(sorted, 1, Len(sorted) - 1), x),
                sorted[Len(sorted)])

(* No sort: the chunks as they were appended *)
KeepReadOrder(chunks) == chunks

RECURSIVE SortChunks(_)
SortChunks(chunks) ==
    IF chunks = <<>> THEN <<>>
    ELSE InsertByIndex(SortChunks(SubSeq(chunks, 1, Len(chunks) - 1)),
                       chunks[Len(chunks)])

(* " ".join(...) of strings *)
RECURSIVE JoinSpace(_)
JoinSpace(texts) ==
    IF texts = <<>> THEN <<>>
    ELSE IF Len(texts) = 1 THEN texts[1]
    ELSE texts[1] \o <<" ">> \o JoinSpace(Tail(texts))

(* str.join raises TypeError on an item that is no string *)
JoinRaises(chunks) == \E j \in 1..Len(chunks) : chunks[j].text.k # "str"

(* The join of the chunks as they were appended *)
FullTextInReadOrder(chunks) ==
    Strip(JoinSpace([j \in 1..Len(chunks) |-> chunks[j].text.s]))

(* l.115-116 *)
FullText(chunks) ==
    LET sorted == SortChunks(chunks)
    IN  Strip(JoinSpace([j \in 1..Len(sorted) |-> sorted[j].text.s]))

(* One pass of the reconstruction loop, l.113-127 *)
ReconstructOne ==
    /\ ld.pc = "reconstruct"
    /\ ld.r <= Len(ld.records_map)
    /\ LET rec == ld.records_map[ld.r]
       IN  ld' = IF JoinRaises(rec.text_chunks)
                 THEN [ld EXCEPT !.r = @ + 1]
                 ELSE [ld EXCEPT !.r = @ + 1,
                         !.full_documents =
                            Append(@, [record_id |-> rec.record_id,
                                       meta |-> rec.meta,
                                       text |-> FullText(rec.text_chunks)])]
    /\ UNCHANGED <<pipelineVars, sinkVars, workerVars>>

(* l.129-130 *)
LoaderReturn ==
    /\ ld.pc = "reconstruct"
    /\ ld.r > Len(ld.records_map)
    /\ ld' = [ld EXCEPT !.pc = "returned"]
    /\ UNCHANGED <<pipelineVars, sinkVars, workerVars>>

(* The scan loop, l.67-107, over a whole archive: the records_map it builds *)
RECURSIVE ScanAll(_)
ScanAll(archive) ==
    IF archive = <<>> THEN <<>>
    ELSE LET map == ScanAll(SubSeq(archive, 1, Len(archive) - 1))
             chunk == archive[Len(archive)]
         IN  IF Skipped(chunk) THEN map
             ELSE Retain(map, IntOf(chunk.record_id),
                         IntOf(chunk.chunk_index), GetText(chunk), chunk.meta)

(* The reconstruction loop, l.113-127: record ids with their texts *)
Reconstruct(map) ==
    {[record_id |-> map[j].record_id, text |-> FullText(map[j].text_chunks)] :
        j \in {n \in 1..Len(map) : ~JoinRaises(map[n].text_chunks)}}

(* load_and_reconstruct on an archive: the ids and texts of its documents *)
TextsOf(archive) == Reconstruct(ScanAll(archive))

InitLoader ==
    /\ PipelineIdle
    /\ SinkIdle
    /\ WorkersIdle
    /\ ld \in {LoaderStart("missing", <<>>), LoaderStart("undecodable", <<>>)}
              \cup {LoaderStart("ok", a) : a \in Archives}

NextLoader ==
    \/ LoaderOpen
    \/ StreamRaises
    \/ ScanChunk
    \/ ScanEnd
    \/ ReconstructOne
    \/ LoaderReturn

SpecLoader == InitLoader /\ [][NextLoader]_vars

----------------------------------------------------------------------------
(* Two processes of threat_sources_manager.py started on the same archive
   and the same CHECKPOINT_FILE.  Each runs run_pipeline, l.112-173, with its
   own locals; workers.file is the id set the checkpoint file holds, and
   workers.w[x] is process x: [pc, phase, documents, i, processed_ids].
   A stage that raises only shortens the call (l.87-90), and a save_entity
   that raises only shortens the iteration (l.166-167): neither is shown.  *)

SharedDocs == 3     \* documents the reconstruction returns to both processes

Workers == {1, 2}

(* l.120-123: both processes reconstruct the same documents, and each draws
   its own random.sample of them *)
WorkerSamples ==
    LET n == Min(SampleCap, SharedDocs)
    IN  {s \in [1..n -> 1..SharedDocs] : \A a, b \in 1..n : a # b => s[a] # s[b]}

WorkerStart(s) ==
    [pc |-> "load_checkpoint", phase |-> "sample", documents |-> s, i |-> 1,
     processed_ids |-> {}]

WDoc(x) == workers.w[x].documents[workers.w[x].i]

(* the for loops' bounds: documents[:sample_size], l.145, and documents, l.153 *)
WLast(x) ==
    IF workers.w[x].phase = "sample"
    THEN Min(SampleCap, Len(workers.w[x].documents))
    ELSE Len(workers.w[x].documents)

(* l.132, load_checkpoint l.48-54: read once, before the loops *)
WLoadCheckpoint(x) ==
    /\ workers.w[x].pc = "load_checkpoint"
    /\ workers' = [workers EXCEPT !.w[x].processed_ids = workers.file,
                                  !.w[x].pc = "loop"]
    /\ UNCHANGED <<pipelineVars, sinkVars, loaderVars>>

(* l.158-160: the id is in this process's processed_ids *)
WLoopSkip(x) ==
    /\ workers.w[x].pc = "loop"
    /\ workers.w[x].phase = "main"
    /\ workers.w[x].i <= WLast(x)
    /\ WDoc(x) \in workers.w[x].processed_ids
    /\ workers' = [workers EXCEPT !.w[x].i = @ + 1]
    /\ UNCHANGED <<pipelineVars, sinkVars, loaderVars>>

(* l.146 and l.162: process_document is entered; l.67-71: an empty text
   returns at once *)
WProcessDocument(x) ==
    /\ workers.w[x].pc = "loop"
    /\ workers.w[x].i <= WLast(x)
    /\ workers.w[x].phase = "main" => WDoc(x) \notin workers.w[x].processed_ids
    /\ workers' =
         IF Strip(DocText(WDoc(x))) # <<>>
         THEN [workers EXCEPT !.w[x].pc = "ner"]
         ELSE IF workers.w[x].phase = "sample"
              THEN [workers EXCEPT !.w[x].i = @ + 1]
              ELSE [workers EXCEPT !.w[x].pc = "ingest"]
    /\ UNCHANGED <<pipelineVars, sinkVars, loaderVars>>

(* l.75-79: NER, then enrichment, then relationship extraction *)
WStage(x) ==
    /\ workers.w[x].pc \in {"ner", "enrich"}
    /\ workers' = [workers EXCEPT !.w[x].pc = StageAfter(@)]
    /\ UNCHANGED <<pipelineVars, sinkVars, loaderVars>>

(* l.82-86: relationship extraction ends the call; the timing loop goes on
   to its next document, the main loop to ingest_to_neo4j *)
WRelex(x) ==
    /\ workers.w[x].pc = "relex"
    /\ workers' =
         IF workers.w[x].phase = "sample"
         THEN [workers EXCEPT !.w[x].pc = "loop", !.w[x].i = @ + 1]
         ELSE [workers EXCEPT !.w[x].pc = "ingest"]
    /\ UNCHANGED <<pipelineVars, sinkVars, loaderVars>>

(* l.163-164: ingest_to_neo4j returns and the id is added *)
WIngest(x) ==
    /\ workers.w[x].pc = "ingest"
    /\ workers' = [workers EXCEPT !.w[x].processed_ids = @ \cup {WDoc(x)},
                                  !.w[x].pc = "save"]
    /\ UNCHANGED <<pipelineVars, sinkVars, loaderVars>>

(* l.165, save_checkpoint l.56-59: the file becomes this process's set *)
WSave(x) ==
    /\ workers.w[x].pc = "save"
    /\ workers' = [workers EXCEPT !.file = workers.w[x].processed_ids,
                                  !.w[x].pc = "loop", !.w[x].i = @ + 1]
    /\ UNCHANGED <<pipelineVars, sinkVars, loaderVars>>

(* the timing loop is followed by the main loop, the main loop by l.169-173 *)
WLoopEnd(x) ==
    /\ workers.w[x].pc = "loop"
    /\ workers.w[x].i > WLast(x)
    /\ workers' =
         IF workers.w[x].phase = "sample"
         THEN [workers EXCEPT !.w[x].phase = "main", !.w[x].i = 1]
         ELSE [workers EXCEPT !.w[x].pc = "done"]
    /\ UNCHANGED <<pipelineVars, sinkVars, loaderVars>>

InitWorkers ==
    /\ PipelineIdle
    /\ SinkIdle
    /\ LoaderIdle
    /\ workers \in {[file |-> {}, w |-> [x \in Workers |-> WorkerStart(s[x])]] :
                       s \in [Workers -> WorkerSamples]}

NextWorkers ==
    \/ \E x \in Workers : WLoadCheckpoint(x)
    \/ \E x \in Workers : WLoopSkip(x)
    \/ \E x \in Workers : WProcessDocument(x)
    \/ \E x \in Workers : WStage(x)
    \/ \E x \in Workers : WRelex(x)
    \/ \E x \in Workers : WIngest(x)
    \/ \E x \in Workers : WSave(x)
    \/ \E x \in Workers : WLoopEnd(x)

SpecWorkers == InitWorkers /\ [][NextWorkers]_vars

----------------------------------------------------------------------------
(* Properties *)

(* process_document has returned to the main loop for documents[i] *)
Handed ==
    /\ phase = "main"
    /\ pc \in {"ingest_entities", "ingest_relationships", "commit",
                "save_open", "save_write"}

Errors == {"ner_error", "enrich_error", "rel_error"}

NoCalls == [ner |-> 0, enrich |-> 0, rel |-> 0]

(* C1: a document whose id is in the checkpoint loaded at startup causes no
   stage invocation in that run. *)
CheckpointedDocInvokesNoStage ==
    \A d \in loaded : calls[d] = NoCalls

(* C2: in a non-dry run an id is added to processed_ids, and written to the
   checkpoint file, only after every upsert of its document has been
   attempted; while a document is being processed the documents before it
   in the loop are in processed_ids and, when writing the file does not
   fail, in the file; so every id in the file, also after a crash and a
   restart, is that of a document whose persistence was attempted. *)
CheckpointAfterPersistence ==
    /\ ckptFile.ids \subseteq attempted
    /\ (processed_ids \ loaded) \subseteq attempted
    /\ (phase = "main" /\ Running /\ pc \notin {"loop", "save_write"})
          => /\ \A j \in 1..(i - 1) : documents[j] \in processed_ids
             /\ "disk" \notin env =>
                   \A j \in 1..(i - 1) : documents[j] \in ckptFile.ids

(* C2 witness: after a restart, a document is persisted while the file
   holds the ids the first process committed *)
CheckpointAfterPersistenceWitness ==
    /\ restarted
    /\ ckptFile.st = "ok"
    /\ ckptFile.ids # {}
    /\ pc = "commit"
    /\ upserts # <<>>
    /\ i > 1

(* C3: when run_pipeline completes, every reconstructed document whose id
   was not in the loaded checkpoint has gone through the stage chain and
   persistence. *)
EveryUnprocessedDocumentDriven ==
    pc = "done" => \A d \in Docs \ loaded : d \in processed_ids

(* C4: a document that ends Failed (empty text, or a stage raised) is not
   added to processed_ids. *)
FailedDocumentNotCommitted ==
    (Handed /\ outcome \in Errors \cup {"empty"}) => Doc \notin processed_ids

(* C5: when enrichment raises for a document, the entity list of the
   extraction is what goes on to persistence, and the document is not
   counted as failed. *)
EnrichmentFailureDegrades ==
    (Handed /\ ~mitre_cache_ok /\ ~NerFails(Doc) /\ Strip(DocText(Doc)) # <<>>)
        => /\ entities = NerOutput(Doc)
           /\ outcome = "ok"

(* C6: when relationship extraction cannot produce relationships or
   raises, the relationship list is empty, the (enriched) entities go on to
   persistence and the document is not counted as failed. *)
RelationFailureYieldsEmptyList ==
    (Handed /\ relMode \in {"no_key", "no_answer", "incomplete", "raises"})
        => /\ relationships = <<>>
           /\ entities = EnrichAll(NerOutput(Doc))
           /\ outcome = "ok"

(* C7: at every instant the checkpoint file holds a complete content, and
   no load of it fails. *)
CheckpointNeverTorn ==
    /\ ckptFile.st # "torn"
    /\ pc # "aborted"

(* C8: in one run each stage is invoked at most once for a document that is
   not in the loaded checkpoint. *)
StagesInvokedAtMostOnce ==
    \A d \in Docs \ loaded :
        calls[d].ner <= 1 /\ calls[d].enrich <= 1 /\ calls[d].rel <= 1

(* A step in which a stage is invoked and raises *)
StageRaises ==
    /\ calls' # calls
    /\ \/ pc = "ner" /\ NerFails(Doc)
       \/ pc = "enrich" /\ ~mitre_cache_ok
       \/ pc = "relex" /\ relMode' = "raises"

StageErrorCounted ==
    StageRaises =>
        /\ metrics'.malformed_docs = metrics.malformed_docs + 1
        /\ pc' = "pd_return"

RunNotAborted ==
    /\ pc = "aborted" => ckptFile.st = "torn"
    /\ pc = "done" =>
          \A j \in 1..Len(documents) : documents[j] \in processed_ids

(* C9: a stage exception while processing a document increments
   malformed_docs by one and process_document returns; the run is not
   aborted by it and ends with every document of its loop handled. *)
StageExceptionContained ==
    []RunNotAborted /\ [][StageErrorCounted]_vars

(* C9 witness: a run whose first document made a stage raise has ended
   with its other documents processed *)
StageExceptionContainedWitness ==
    /\ pc = "done"
    /\ NerFails(documents[1])
    /\ metrics.malformed_docs >= 2
    /\ metrics.total_entities > 0

Items(log) == [n \in 1..Len(log) |-> log[n].item]
Kinds(log) == [n \in 1..Len(log) |-> log[n].kind]

AllItemsAttemptedOnce ==
    /\ (pc = "ingest_entities" /\ ~dry_run)
          => Items(upserts) = SubSeq(entities, 1, k - 1)
    /\ (pc = "ingest_relationships")
          => Items(upserts) = entities \o SubSeq(relationships, 1, k - 1)
    /\ (pc \in {"commit", "save_open", "save_write"} /\ ~dry_run)
          => /\ Items(upserts) = entities \o relationships
             /\ Kinds(upserts) = [n \in 1..Len(upserts) |->
                    IF n <= Len(entities) THEN "entity" ELSE "relationship"]
    /\ pc \in {"save_open", "save_write"} => Doc \in processed_ids

IngestEndsInCommit ==
    (pc \in {"ingest_entities", "ingest_relationships"})
        => pc' \in {"ingest_entities", "ingest_relationships", "commit", "crashed"}

(* C10: in ingest_to_neo4j every entity and then every relationship of the
   document is attempted exactly once whatever fails, and the loops end in
   the addition of the id to processed_ids. *)
ItemFailureDoesNotStopIngest ==
    []AllItemsAttemptedOnce /\ [][IngestEndsInCommit]_vars

(* C10 witness: the first upsert of three raised and the id is committed *)
ItemFailureDoesNotStopIngestWitness ==
    /\ pc = "save_open"
    /\ Len(upserts) = 3
    /\ ~upserts[1].ok
    /\ upserts[3].kind = "relationship"



(* The step in which load_checkpoint returns or raises *)
CheckpointLoaded == pc = "load_checkpoint" /\ pc' \notin {pc, "crashed"}

(* C19: load_checkpoint gives the empty set when there is no file; when the
   file exists and holds no JSON array of ids, the run aborts there, with no
   stage invoked and nothing persisted. *)
MalformedCheckpointAborts ==
    [][CheckpointLoaded =>
        /\ ckptFile.st = "absent" =>
              (processed_ids' = {} /\ pc' # "aborted")
        /\ ckptFile.st \in {"torn", "object"} =>
              /\ pc' = "aborted"
              /\ calls' = ZeroCalls
              /\ upserts' = <<>>
              /\ UNCHANGED <<attempted, ckptFile>>]_vars

(* C20: a run that has ended, its process not killed and its checkpoint
   read without error, has reported the metrics summary. *)
RunEndsWithSummary ==
    (~Running /\ pc \notin {"crashed", "aborted"}) => pc = "done"

(* The documents of the run with an empty text *)
EmptyDocuments ==
    {j \in 1..Len(documents) : \A n \in 1..Len(DocText(documents[j])) :
                                   DocText(documents[j])[n] = " "}

(* The entities extraction yields over the first n documents of the run *)
RECURSIVE EntitiesProduced(_)
EntitiesProduced(n) ==
    IF n = 0 THEN 0
    ELSE EntitiesProduced(n - 1)
           + (IF n \in EmptyDocuments \/ NerFails(documents[n]) THEN 0
              ELSE Len(NerOutput(documents[n])))

(* C21: the counters are zero when run_pipeline starts, and when it ends
   empty_texts and total_entities are the counts over the documents the run
   processed, each document once; malformed_docs and total_relationships
   count no document twice either. *)
MetricsCountEachDocumentOnce ==
    /\ pc = "start" => metrics = ZeroMetrics
    /\ pc = "done" =>
         /\ metrics.empty_texts = Cardinality(EmptyDocuments)
         /\ metrics.total_entities = EntitiesProduced(Len(documents))
         /\ metrics.malformed_docs
              <= Len(documents) - Cardinality(EmptyDocuments)
         /\ metrics.total_relationships
              <= Len(documents) - Cardinality(EmptyDocuments)

(* documents[i] is in process_document or between it and the next document *)
AtDocument ==
    pc \in {"process_document", "ner", "enrich", "relex", "pd_return",
            "ingest_entities", "ingest_relationships", "commit",
            "save_open", "save_write"}

WhitespaceOnly(t) == \A n \in 1..Len(t) : t[n] = " "

EmptyTextStep ==
    (AtDocument /\ WhitespaceOnly(DocText(Doc)) /\ pc' # "crashed") =>
        /\ calls' = calls
        /\ metrics'.malformed_docs = metrics.malformed_docs
        /\ pc = "process_document" =>
              /\ metrics'.empty_texts = metrics.empty_texts + 1
              /\ pc' = "pd_return"
        /\ pc # "process_document" =>
              metrics'.empty_texts = metrics.empty_texts
        /\ pc' \notin {"ner", "enrich", "relex", "aborted"}

EmptyTextInvokesNoStage ==
    /\ \A d \in Docs : WhitespaceOnly(DocText(d)) => calls[d] = NoCalls
    /\ (AtDocument /\ WhitespaceOnly(DocText(Doc)))
          => (entities = <<>> /\ relationships = <<>> /\ upserts = <<>>)

(* C22: a document with an empty or whitespace-only text invokes no stage;
   process_document adds one to empty_texts and nothing to malformed_docs
   and returns; nothing is upserted for it and the run goes on to the next
   document without aborting. *)
EmptyTextCountedNotFailed ==
    []EmptyTextInvokesNoStage /\ [][EmptyTextStep]_vars

(* C22 witness: the run has ended after an empty-text document that was
   followed by a document with entities *)
EmptyTextCountedNotFailedWitness ==
    /\ pc = "done"
    /\ Len(documents) = 3
    /\ WhitespaceOnly(DocText(documents[1]))
    /\ metrics.empty_texts > 0
    /\ metrics.malformed_docs = 0
    /\ metrics.total_entities > 0

StepsInSequence ==
    /\ pc = "ner" => pd = NoLocals
    /\ pc = "enrich" =>
          /\ pd.entities = NerOutput(Doc)
          /\ pd.enriched_entities = <<>>
          /\ pd.relationships = <<>>
    /\ pc = "relex" =>
          /\ pd.entities = NerOutput(Doc)
          /\ pd.enriched_entities = EnrichAll(pd.entities)
          /\ pd.relationships = <<>>
    /\ \A d \in Docs :
          calls[d].ner >= calls[d].enrich /\ calls[d].enrich >= calls[d].rel
    /\ pc \in {"process_document", "ner", "enrich", "relex", "pd_return"}
          => upserts = <<>>
    /\ \A m, n \in 1..Len(upserts) :
          (m < n /\ upserts[m].kind = "relationship")
             => upserts[n].kind = "relationship"
    /\ pc = "ingest_relationships" =>
          /\ Len(upserts) >= Len(entities)
          /\ \A n \in 1..Len(entities) : upserts[n].kind = "entity"
    /\ (pc \in {"save_open", "save_write"} /\ ~dry_run) =>
          Len(upserts) = Len(entities) + Len(relationships)
    /\ (AtDocument /\ pc \notin {"save_open", "save_write"}) =>
          Doc \notin ckptFile.ids \ loaded

StepOrder ==
    /\ pc = "ner" => pc' \in {"ner", "enrich", "pd_return", "crashed"}
    /\ pc = "enrich" => pc' \in {"enrich", "relex", "pd_return", "crashed"}
    /\ pc = "relex" => pc' \in {"relex", "pd_return", "crashed"}
    /\ pc = "ingest_entities" =>
          pc' \in {"ingest_entities", "crashed",
                   IF dry_run THEN "commit" ELSE "ingest_relationships"}
    /\ pc = "ingest_relationships" =>
          pc' \in {"ingest_relationships", "commit", "crashed"}
    /\ pc = "commit" => pc' \in {"commit", "save_open", "crashed"}

(* C23: for one document extraction has returned before enrichment starts,
   enrichment before relationship extraction, relationship extraction
   before the first upsert; the entity upserts all come before the
   relationship upserts, and the checkpoint is written after all of them. *)
StepsStrictlySequential ==
    []StepsInSequence /\ [][StepOrder]_vars

(* C23 witness: the checkpoint is being written for a document whose two
   enriched entities and one relationship have been upserted *)
StepsStrictlySequentialWitness ==
    /\ pc = "save_write"
    /\ Len(upserts) = 3
    /\ \A n \in 1..3 : upserts[n].ok
    /\ entities[2].mitre_id = "T1000"
    /\ calls[Doc].rel > 0

----------------------------------------------------------------------------
(* Properties of Neo4jPersistor *)

Tries == sinkCall.tries

AllTransient(n) == \A m \in 1..n : Tries[m] = "transient"

(* C11: a query that raises TransientError is invoked again, at most
   MaxRetries invocations in all; every invocation before the last one raised
   TransientError, so nothing is invoked after a success; and after
   MaxRetries TransientErrors the call ends by raising TransientError. *)
TransientErrorRetried ==
    /\ Len(Tries) <= MaxRetries
    /\ AllTransient(Len(Tries) - 1)
    /\ sinkCall.result = "running"
         => (Len(Tries) < MaxRetries /\ AllTransient(Len(Tries)))
    /\ (sinkCall.result = "ok") = (Tries # <<>> /\ Tries[Len(Tries)] = "ok")
    /\ (sinkCall.result = "TransientError")
         = (Len(Tries) = MaxRetries /\ AllTransient(MaxRetries))

TransientErrorRetriedWitness ==
    /\ sinkCall.result = "TransientError"
    /\ Tries = <<"transient", "transient", "transient">>
    /\ sinkCall.n > 1
    /\ graph # EmptyGraph

(* C12: a call with a missing name, type, source, target or relationship
   type raises before the query is invoked at all; an exception of the query
   that is no TransientError is the last invocation of the call and is
   raised to the caller, after one invocation when it is the first outcome. *)
NonTransientNotRetried ==
    /\ sinkCall.result = "ValueError" => Tries = <<>>
    /\ (sinkCall.op = "save_entity" /\ ~EntityValid(sinkCall.arg))
         => sinkCall.result = "ValueError"
    /\ (sinkCall.op = "save_relationship" /\ ~RelationValid(sinkCall.arg))
         => sinkCall.result = "ValueError"
    /\ \A m \in 1..Len(Tries) :
         Tries[m] = "error" => (m = Len(Tries) /\ sinkCall.result = "Error")
    /\ sinkCall.result = "Error" => Tries[Len(Tries)] = "error"

NonTransientNotRetriedWitness ==
    /\ sinkCall.result = "Error"
    /\ Tries = <<"error">>
    /\ sinkCall.op = "save_relationship"

ValidEntities == {e \in EntityInputs : EntityValid(e)}

ValidRelations == {r \in RelationInputs : RelationValid(r)}

(* The stored records with natural key (name, type) *)
Stored(key) == MatchNameType(graph, key[1], key[2])

(* C13: from every store the calls lead to, a second identical save_entity
   or save_relationship changes nothing; and when save_entity has succeeded
   for a natural key that an earlier save_entity upserted, the store holds
   one record of that key and it carries the later call's values. *)
UpsertIdempotent ==
    /\ \A e \in ValidEntities :
         SaveEntityQuery(SaveEntityQuery(graph, e), e)
            = SaveEntityQuery(graph, e)
    /\ \A r \in ValidRelations :
         SaveRelationshipQuery(SaveRelationshipQuery(graph, r), r)
            = SaveRelationshipQuery(graph, r)
    /\ (sinkCall.op = "save_entity" /\ sinkCall.result = "ok"
          /\ sinkCall.again)
         => LET key == <<sinkCall.arg.name, sinkCall.arg.type>>
            IN  /\ Cardinality(Stored(key)) = 1
                /\ \A n \in Stored(key) :
                     graph.nodes[n].data = sinkCall.arg.data

(* C14: between calls the store holds one node for every natural key that
   a successful save_entity upserted or a successful save_relationship
   referenced, and no node of another key. *)
OneNodePerNaturalKey ==
    CallOver =>
      /\ \A key \in sinkCall.upserted \cup sinkCall.referenced :
           Cardinality(Stored(key)) = 1
      /\ \A n \in 1..Len(graph.nodes) :
           <<graph.nodes[n].name, graph.nodes[n].entity_type>>
              \in sinkCall.upserted \cup sinkCall.referenced

----------------------------------------------------------------------------
(* Properties of ChunkedThreatLoader *)

LoaderReturned == ld.pc = "returned"

(* A chunk whose text is absent, empty, shorter than the minimum or longer
   than the maximum *)
TextRejected(c) ==
    /\ c.obj
    /\ \/ c.text.k = "absent"
       \/ /\ c.text.k = "str"
          /\ \/ Len(c.text.s) < MIN_TEXT_LENGTH
             \/ Len(c.text.s) > MAX_CHUNK_TEXT_LENGTH

(* A chunk with a text of admitted length and an id and a position that
   coerce to integers *)
Acceptable(c) ==
    /\ c.obj
    /\ c.text.k = "str"
    /\ Len(c.text.s) \in MIN_TEXT_LENGTH..MAX_CHUNK_TEXT_LENGTH
    /\ CanInt(c.record_id)
    /\ CanInt(c.chunk_index)

(* The acceptable chunks of document d, in read order *)
AcceptableOf(d) ==
    LET Mine(c) == Acceptable(c) /\ IntOf(c.record_id) = d
    IN  SelectSeq(ld.archive, Mine)

Position(c) == IntOf(c.chunk_index)

(* Chunks by ascending position, equal positions in read order *)
RECURSIVE InAscendingPosition(_)
InAscendingPosition(chunks) ==
    IF chunks = <<>> THEN <<>>
    ELSE LET least == CHOOSE p \in {Position(chunks[j]) : j \in 1..Len(chunks)} :
                        \A j \in 1..Len(chunks) : p <= Position(chunks[j])
             First(c) == Position(c) = least
             Later(c) == Position(c) # least
         IN  SelectSeq(chunks, First) \o InAscendingPosition(SelectSeq(chunks, Later))

JoinedInPositionOrder(d) ==
    LET ordered == InAscendingPosition(AcceptableOf(d))
    IN  JoinSpace([j \in 1..Len(ordered) |-> ordered[j].text.s])

DocumentsOf(l) == {l.full_documents[j] : j \in 1..Len(l.full_documents)}

(* C15 as stated: a reconstructed document's text is its retained chunk
   texts joined by single spaces in ascending position. *)
TextIsJoinOfChunks ==
    LoaderReturned =>
      \A doc \in DocumentsOf(ld) :
         doc.text = JoinedInPositionOrder(doc.record_id)

(* C15, amended: a reconstructed document's text is its retained chunk texts
   joined by single spaces in ascending position, whatever the read order,
   with the blanks at both ends of the joined text removed. *)
TextIsStrippedJoinOfChunks ==
    LoaderReturned =>
      \A doc \in DocumentsOf(ld) :
         doc.text = Strip(JoinedInPositionOrder(doc.record_id))

TextIsStrippedJoinOfChunksWitness ==
    /\ LoaderReturned
    /\ ld.archive = << Chunk(Num(1), Num(2), Str(TextC)),
                       Chunk(Num(1), Num(0), Str(TextA)),
                       Chunk(Num(1), Num(1), Str(TextB)) >>
    /\ ld.full_documents =
         << [record_id |-> 1, meta |-> "m1",
             text |-> TextA \o <<" ">> \o TextB \o <<" ">> \o TextC] >>

Scanned == ld.pc = "scan" /\ ld'.pc = "scan" /\ ld'.next = ld.next + 1

LastRetained(map, d) ==
    LET chunks == map[EntryOf(map, d)].text_chunks
    IN  chunks[Len(chunks)]

(* C16: scanning a chunk whose text is absent, empty, too short or too long
   leaves the retained chunks as they were and adds one to the skipped
   count; scanning a chunk with a text of admitted length and a coercible id
   and position appends it to its document's chunks and counts it valid. *)
ChunkValidated ==
    [][Scanned =>
        LET c == ld.archive[ld.next]
        IN  /\ TextRejected(c) =>
                /\ ld'.records_map = ld.records_map
                /\ ld'.skipped_chunks = ld.skipped_chunks + 1
                /\ ld'.valid_chunks = ld.valid_chunks
            /\ Acceptable(c) =>
                /\ ld'.skipped_chunks = ld.skipped_chunks
                /\ ld'.valid_chunks = ld.valid_chunks + 1
                /\ EntryOf(ld'.records_map, IntOf(c.record_id))
                      <= Len(ld'.records_map)
                /\ LastRetained(ld'.records_map, IntOf(c.record_id))
                      = [idx |-> Position(c), text |-> c.text]]_vars

ChunkValidatedWitness ==
    /\ ld.pc = "scan"
    /\ ld.next = 4
    /\ Len(ld.archive[1].text.s) = MAX_CHUNK_TEXT_LENGTH
    /\ Len(ld.archive[2].text.s) = MAX_CHUNK_TEXT_LENGTH + 1
    /\ Len(ld.archive[3].text.s) = MIN_TEXT_LENGTH
    /\ ld.archive[3].text.k = "str"
    /\ ld.valid_chunks = 2
    /\ ld.skipped_chunks = 1

(* The record ids with a retained chunk *)
RetainedIds == {IntOf(ld.archive[j].record_id) :
                  j \in {m \in 1..Len(ld.archive) : Acceptable(ld.archive[m])}}

(* C17: the loader returns one document for every record id with a retained
   chunk, none twice, and none for an id whose chunks were all rejected. *)
OneDocumentPerRetainedId ==
    LoaderReturned =>
      /\ \A m, j \in 1..Len(ld.full_documents) :
           ld.full_documents[m].record_id = ld.full_documents[j].record_id
              => m = j
      /\ {doc.record_id : doc \in DocumentsOf(ld)} = RetainedIds

(* A malformed chunk: no object, an id or position that is missing or does
   not coerce, or a text that is no string *)
Malformed(c) ==
    \/ ~c.obj
    \/ ~CanInt(c.record_id)
    \/ ~CanInt(c.chunk_index)
    \/ c.text.k \notin {"str", "absent"}

(* The ids of the acceptable chunks, by first appearance *)
RECURSIVE FirstSeenIds(_)
FirstSeenIds(chunks) ==
    IF chunks = <<>> THEN <<>>
    ELSE LET before == FirstSeenIds(SubSeq(chunks, 1, Len(chunks) - 1))
             c == chunks[Len(chunks)]
         IN  IF Acceptable(c)
                  /\ \A j \in 1..Len(before) : before[j] # IntOf(c.record_id)
             THEN Append(before, IntOf(c.record_id))
             ELSE before

(* What the archive without its malformed chunks reconstructs to *)
DocumentsWithoutMalformed ==
    LET ids == FirstSeenIds(ld.archive)
    IN  [j \in 1..Len(ids) |->
            [record_id |-> ids[j],
             meta |-> AcceptableOf(ids[j])[1].meta,
             text |-> Strip(JoinedInPositionOrder(ids[j]))]]

NotAcceptable == {j \in 1..Len(ld.archive) : ~Acceptable(ld.archive[j])}

(* C18: a malformed chunk is skipped and counted and the pass goes on; the
   documents returned are those of the archive without its malformed chunks;
   the loader raises only for a missing file or an undecodable archive. *)
MalformedChunkIsolated ==
    /\ ld.pc = "raised" => ld.file \in {"missing", "undecodable"}
    /\ LoaderReturned =>
         /\ ld.full_documents = DocumentsWithoutMalformed
         /\ ld.skipped_chunks = Cardinality(NotAcceptable)
         /\ ld.total_chunks = Len(ld.archive)

(* The places in the archive of the acceptable chunks of document d *)
ReadIndexes(d) ==
    {j \in 1..Len(ld.archive) :
        Acceptable(ld.archive[j]) /\ IntOf(ld.archive[j].record_id) = d}

(* The chunk read at m comes before the chunk read at n in the text: by
   position, and by read order when the positions are equal *)
ComesBefore(m, n) ==
    \/ Position(ld.archive[m]) < Position(ld.archive[n])
    \/ Position(ld.archive[m]) = Position(ld.archive[n]) /\ m < n

Rank(d, m) == 1 + Cardinality({n \in ReadIndexes(d) : ComesBefore(n, m)})

TextsByPositionThenRead(d) ==
    [r \in 1..Cardinality(ReadIndexes(d)) |->
        ld.archive[CHOOSE m \in ReadIndexes(d) : Rank(d, m) = r].text.s]

HasDuplicatePosition(d) ==
    \E m, n \in ReadIndexes(d) :
        m # n /\ Position(ld.archive[m]) = Position(ld.archive[n])

(* C24: when retained chunks of a document share a position, the record
   keeps every one of them and the document's text has them in the order in
   which they were read. *)
DuplicatePositionsInReadOrder ==
    LoaderReturned =>
      /\ \A doc \in DocumentsOf(ld) :
           HasDuplicatePosition(doc.record_id) =>
              doc.text = Strip(JoinSpace(TextsByPositionThenRead(doc.record_id)))
      /\ \A j \in 1..Len(ld.records_map) :
           Len(ld.records_map[j].text_chunks)
              >= Cardinality(ReadIndexes(ld.records_map[j].record_id))

DuplicatePositionsInReadOrderWitness ==
    /\ LoaderReturned
    /\ ld.archive = << WithMeta(Chunk(Str(<<"2">>), Str(<<"0">>), Str(TextMax)), "m2"),
                       Chunk(Num(1), Num(0), Str(TextA)),
                       Chunk(Num(2), Num(0), Str(TextBlanks)) >>
    /\ Len(ld.full_documents) = 2
    /\ ld.full_documents[1].text
          = TextMax \o <<" ", " ">> \o Rep("d", MIN_TEXT_LENGTH)

(* The chunks of the archive that name record d, in read order *)
SeenOf(d) ==
    LET OfRecord(c) == c.obj /\ CanInt(c.record_id) /\ IntOf(c.record_id) = d
    IN  SelectSeq(ld.archive, OfRecord)

(* C25 as stated: a document's metadata are those of the first chunk seen
   for its id. *)
MetadataOfFirstSeen ==
    LoaderReturned =>
      \A doc \in DocumentsOf(ld) :
         doc.meta = SeenOf(doc.record_id)[1].meta

MetadataKept ==
    (Scanned /\ Acceptable(ld.archive[ld.next])) =>
       LET c == ld.archive[ld.next]
           d == IntOf(c.record_id)
           j == EntryOf(ld.records_map, d)
       IN  /\ ld'.records_map[j].meta
                = IF j <= Len(ld.records_map) THEN ld.records_map[j].meta
                  ELSE c.meta
           /\ LastRetained(ld'.records_map, d).text = c.text

MetadataOfFirstRetainedChunk ==
    LoaderReturned =>
      \A doc \in DocumentsOf(ld) :
         /\ doc.meta = AcceptableOf(doc.record_id)[1].meta
         /\ Len(ld.records_map[EntryOf(ld.records_map, doc.record_id)].text_chunks)
               = Len(AcceptableOf(doc.record_id))

(* C25, amended: a document's metadata are those of the first retained chunk
   of its id and are never overwritten; a later chunk of that id with other
   metadata has its text accumulated and leaves the metadata as they were. *)
MetadataOfFirstRetained ==
    []MetadataOfFirstRetainedChunk /\ [][MetadataKept]_vars

MetadataOfFirstRetainedWitness ==
    /\ LoaderReturned
    /\ ld.archive = << Chunk(Num(2), Num(0), Str(TextBlanks)),
                       WithMeta(Chunk(Str(<<"2">>), Str(<<"0">>), Str(TextMax)), "m2") >>
    /\ Len(ld.full_documents) = 1
    /\ ld.full_documents[1].meta = "m1"
    /\ Len(ld.full_documents[1].text) > MAX_CHUNK_TEXT_LENGTH

(* The archive with the chunks read at j and j + 1 in the other order *)
Swap(archive, j) ==
    [archive EXCEPT ![j] = archive[j + 1], ![j + 1] = archive[j]]

ReturnedTexts ==
    {[record_id |-> doc.record_id, text |-> doc.text] : doc \in DocumentsOf(ld)}

(* C26 as stated: the documents' texts are the same for every read order of
   the chunks; every order is reached by exchanges of neighbours. *)
ScanOrderIndependent ==
    LoaderReturned =>
      /\ ReturnedTexts = TextsOf(ld.archive)
      /\ \A j \in 1..(Len(ld.archive) - 1) :
           TextsOf(Swap(ld.archive, j)) = ReturnedTexts

(* Two retained chunks of one document at one position *)
Tied(c, e) ==
    /\ ~Skipped(c)
    /\ ~Skipped(e)
    /\ IntOf(c.record_id) = IntOf(e.record_id)
    /\ IntOf(c.chunk_index) = IntOf(e.chunk_index)

(* C26, amended: the documents' texts are the same for every read order of
   the chunks in which the retained chunks of a document that share a
   position keep their relative order. *)
ScanOrderIndependentUpToTies ==
    LoaderReturned =>
      /\ ReturnedTexts = TextsOf(ld.archive)
      /\ \A j \in 1..(Len(ld.archive) - 1) :
           ~Tied(ld.archive[j], ld.archive[j + 1])
              => TextsOf(Swap(ld.archive, j)) = ReturnedTexts

ScanOrderIndependentUpToTiesWitness ==
    /\ LoaderReturned
    /\ ld.archive = << Chunk(Num(1), Num(1), Str(TextB)),
                       Chunk(Num(2), Num(0), Str(TextBlanks)),
                       Chunk(Num(1), Num(0), Str(TextA)) >>
    /\ ReturnedTexts =
         { [record_id |-> 1, text |-> TextA \o <<" ">> \o TextB],
           [record_id |-> 2, text |-> Rep("d", MIN_TEXT_LENGTH)] }
----------------------------------------------------------------------------
(* Two processes on one checkpoint file *)

(* Process x is in a stage of process_document or in ingest_to_neo4j for
   record d *)
Active(x, d) ==
    /\ workers.w[x].pc \in {"ner", "enrich", "relex", "ingest"}
    /\ WDoc(x) = d

(* C27: when two workers run the pipeline over the same reconstructed
   documents and the same checkpoint file, no document id is being extracted,
   enriched or persisted on both workers at the same time. *)
NoDocumentOnTwoWorkers ==
    workers # NoWorkers =>
        \A d \in 1..SharedDocs : ~(Active(1, d) /\ Active(2, d))

----------------------------------------------------------------------------
(* Checkpointed documents and the sink *)

(* ingest_to_neo4j is running, or has made calls, for a document outside the
   loaded checkpoint only *)
NoIngestOfLoaded ==
    (pc \in {"ingest_entities", "ingest_relationships"} \/ upserts # <<>>)
        => Doc \notin loaded

(* a step that calls save_entity or save_relationship does so for a document
   that was not in the loaded checkpoint *)
SaveCallOutsideLoaded ==
    (upserts' # upserts /\ upserts' # <<>>) => documents[i] \notin loaded

(* C28: for a document whose id is in the checkpoint loaded at startup,
   run_pipeline never calls save_entity or save_relationship in that run, in
   the timing loop or in the main loop. *)
LoadedNeverPersisted == []NoIngestOfLoaded /\ [][SaveCallOutsideLoaded]_vars

(* The main loop has just passed a document of the loaded checkpoint, and
   the sink was called for an earlier document of the same run *)
LoadedNeverPersistedWitness ==
    /\ pc = "loop"
    /\ phase = "main"
    /\ i > 2
    /\ documents[i - 1] \in loaded
    /\ documents[i - 2] \notin loaded
    /\ documents[i - 2] \in processed_ids

----------------------------------------------------------------------------
(* The processed-id set within one run *)

(* In a process that has loaded the checkpoint and is running its loops,
   or has finished them, processed_ids holds the loaded set and whatever the
   file holds *)
ProcessedHoldsFile ==
    ((Running /\ pc \notin {"start", "load_checkpoint"}) \/ pc = "done") =>
        /\ loaded \subseteq processed_ids
        /\ ckptFile.ids \subseteq processed_ids

(* Within a run processed_ids loses no id *)
ProcessedOnlyGrows ==
    restarted' = restarted => processed_ids \subseteq processed_ids'

(* A completed save_checkpoint writes processed_ids, which holds the loaded
   set and what the file held before *)
WrittenHoldsEarlier ==
    (ckptFile' # ckptFile /\ ckptFile'.st = "ok") =>
        /\ ckptFile'.ids = processed_ids
        /\ loaded \subseteq ckptFile'.ids
        /\ ckptFile.ids \subseteq ckptFile'.ids

(* C29: within a run the processed-id set only grows: every content
   save_checkpoint writes holds the set loaded at startup and every content
   written earlier in the run, also after a save_checkpoint call that
   failed. *)
CheckpointOnlyGrows ==
    /\ []ProcessedHoldsFile
    /\ [][ProcessedOnlyGrows]_vars
    /\ [][WrittenHoldsEarlier]_vars

(* A second run loaded a non-empty checkpoint and has completed two writes
   of its own *)
CheckpointOnlyGrowsWitness ==
    /\ restarted
    /\ loaded # {}
    /\ ckptFile.st = "ok"
    /\ Cardinality(ckptFile.ids \ loaded) >= 2

----------------------------------------------------------------------------
(* A dry run and the run after it *)

(* In a dry run no call of the sink is made or recorded, and the document
   whose checkpoint is being written is in processed_ids *)
DryRunPersistsNothing ==
    dry_run =>
        /\ upserts = <<>>
        /\ attempted = {}
        /\ pc \notin {"ingest_relationships"}
        /\ pc \in {"save_open", "save_write"} => Doc \in processed_ids

(* A checkpoint write that completes in a dry run holds the id of the
   document just processed *)
DryRunCheckpoints ==
    (dry_run /\ ckptFile' # ckptFile /\ ckptFile'.st = "ok") =>
        documents[i] \in ckptFile'.ids

(* The run after the dry run makes no sink call for an id it loaded from the
   dry run's checkpoint, and no such id was ever persisted *)
LaterRunSkipsDryRunIds ==
    ~dry_run =>
        /\ loaded \cap attempted = {}
        /\ (pc \in {"ingest_entities", "ingest_relationships"} \/ upserts # <<>>)
               => Doc \notin loaded

(* C30: with dry_run set, ingest_to_neo4j never calls save_entity or
   save_relationship, yet run_pipeline still adds each processed document id
   to the checkpoint and saves it, so that a later run without dry_run skips
   those documents without ever persisting them. *)
DryRunStillCheckpoints ==
    /\ []DryRunPersistsNothing
    /\ [][DryRunCheckpoints]_vars
    /\ []LaterRunSkipsDryRunIds

(* The run after a dry run has finished: it loaded ids the dry run
   checkpointed, one of them among its documents, persisted another document
   and none of the loaded ones *)
DryRunStillCheckpointsWitness ==
    /\ ~dry_run
    /\ pc = "done"
    /\ \E a \in 1..Len(documents) : documents[a] \in loaded
    /\ attempted # {}
    /\ loaded \cap attempted = {}

====
